---- MODULE Spec2Model ----
(***************************************************************************)
(* A model of the Stanza text anonymizer.                                  *)
(*                                                                         *)
(*   anonymizer.py  _ensure_pipeline        the locked, cached pipeline    *)
(*   anonymizer.py  anonymize_with_stanza   entity extraction (doc.ents,   *)
(*                                          BIO token fallback), the sort  *)
(*                                          and the redaction sweep        *)
(*   main.py        RootWidget              the Kivy front-end: the loader *)
(*                                          thread, the worker threads and *)
(*                                          the Clock callbacks            *)
(*                                                                         *)
(* Strings are sequences of one-character strings, so that slicing,        *)
(* splitting and joining are computed and not assumed.  Offsets are        *)
(* Python's 0-based half-open character offsets.  An Optional value is     *)
(* the empty sequence (None) or a one-element sequence.                    *)
(***************************************************************************)
EXTENDS Integers, Sequences, FiniteSets, TLC

VARIABLES
    text,           \* anonymize_with_stanza: the input string
    doc,            \* the parsed document: [ents, sentences]
    pc,             \* position in anonymize_with_stanza
    spans,          \* the span list chosen at lines 123-125
    si,             \* _spans_from_tokens: index of the current sentence
    ti,             \* _spans_from_tokens: index of the next token in it
    cur_start,      \* _spans_from_tokens: Optional start of the open span
    cur_end,        \* _spans_from_tokens: Optional end of the open span
    cur_type,       \* _spans_from_tokens: Optional type of the open span
    spans_local,    \* _spans_from_tokens: the spans emitted so far
    spans_sorted,   \* the sorted span list of line 127
    k,              \* the sweep's position in spans_sorted
    last_idx,       \* the sweep's last emitted end
    result_parts,   \* the pieces appended so far
    accepted,       \* the spans the sweep did not skip, in order
    output          \* Optional: the returned string

anonVars == <<text, doc, pc, spans, si, ti, cur_start, cur_end, cur_type,
              spans_local, spans_sorted, k, last_idx, result_parts,
              accepted, output>>

VARIABLES
    lock,           \* _pipeline_lock: Optional holder
    stanza_pipeline,\* _stanza_pipeline: Optional instance
    tpc,            \* per caller: position in _ensure_pipeline
    ret,            \* per caller: the outcomes of its finished calls, in order
    calls,          \* per caller: calls started
    built,          \* pipelines constructed so far (instance ids)
    failed          \* Pipeline constructions that raised so far

pipeVars == <<lock, stanza_pipeline, tpc, ret, calls, built, failed>>

VARIABLES
    input_text,       \* RootWidget.input_text
    output_text,      \* RootWidget.output_text
    status_text,      \* RootWidget.status_text
    model_info_text,  \* RootWidget.model_info_text
    pipeline_loaded,  \* RootWidget.pipeline_loaded
    pipeline_loading, \* RootWidget._pipeline_loading
    app_started,      \* AnonymizerApp.on_start has run
    loaders,          \* the _load_pipeline_background threads: position of each
    workers,          \* the _worker threads, in the order they were started
    clock             \* the callbacks given to Clock.schedule_once, oldest first

guiVars == <<input_text, output_text, status_text, model_info_text,
             pipeline_loaded, pipeline_loading, app_started, loaders, workers,
             clock>>

vars == <<anonVars, pipeVars, guiVars>>

(***************************************************************************)
(* Bounds of the model.                                                    *)
(***************************************************************************)
MaxOff == 2
MaxSpans == 2
MaxTokens == 3
MaxEnts == 2
MaxEntOff == 2
MaxCalls == 2
MaxRequests == 2
NCallers == 3

(***************************************************************************)
(* Python values.                                                          *)
(***************************************************************************)
None == <<>>
Some(v) == <<v>>
IsNone(x) == x = <<>>
Val(x) == x[1]

Min(a, b) == IF a < b THEN a ELSE b
Max(a, b) == IF a > b THEN a ELSE b

\* s[a:b] on a string s, for any integers a and b
SliceThrough(s, a, b) == SubSeq(s, a + 1, b + 1)
SliceFromNext(s, a) == SubSeq(s, a + 2, Len(s))
SliceIndex(i, n) == IF i < 0 THEN Max(i + n, 0) ELSE Min(i, n)
Slice(s, a, b) == SubSeq(s, SliceIndex(a, Len(s)) + 1, SliceIndex(b, Len(s)))
SliceFrom(s, a) == SubSeq(s, SliceIndex(a, Len(s)) + 1, Len(s))

\* "".join(parts)
RECURSIVE Join(_)
Join(parts) == IF parts = <<>> THEN <<>> ELSE Head(parts) \o Join(Tail(parts))

\* f"[{label}]"
Bracket(label) == <<"[">> \o label \o <<"]">>

\* tag.split("-")
RECURSIVE SplitFrom(_, _, _)
SplitFrom(s, i, part) ==
    IF i > Len(s) THEN <<part>>
    ELSE IF s[i] = "-" THEN <<part>> \o SplitFrom(s, i + 1, <<>>)
    ELSE SplitFrom(s, i + 1, Append(part, s[i]))
Split(s) == SplitFrom(s, 1, <<>>)

(***************************************************************************)
(* The parsed document.  An entity record carries start_char, end_char and *)
(* type as Python values [k, v]: for an offset k is "int" (v), "numstr"    *)
(* (the numeric string of v), "none" (None) or "missing" (no attribute);   *)
(* for a type k is "str" (v), "none" or "missing".  A token carries        *)
(* integer offsets, as Stanza's tokenizer sets them, and its ner tag.      *)
(***************************************************************************)
PERSON == <<"P", "E", "R", "S", "O", "N">>
ORG == <<"O", "R", "G">>
GPE == <<"G", "P", "E">>

IntVal(n) == [k |-> "int", v |-> n]
StrVal(s) == [k |-> "str", v |-> s]
Ent(s, e, t) == [start_char |-> s, end_char |-> e, type |-> t]
Tok(s, e, tag) == [start_char |-> s, end_char |-> e, ner |-> tag]
Tag(prefix, type) == <<prefix, "-">> \o type
OTag == <<"O">>

\* int(x) raises for None and for a missing attribute
IntRaisesNotNone(x) == x.k = "missing"
IntRaises(x) == x.k \notin {"int", "numstr"}
int(x) == x.v
\* str(x) raises only when the attribute is missing
StrRaises(x) == x.k = "missing"
str(x) == IF x.k = "none" THEN <<"N", "o", "n", "e">> ELSE x.v

(***************************************************************************)
(* _spans_from_doc_ents, lines 61-75.                                      *)
(***************************************************************************)
KeepEntAlways(start, end) == TRUE
KeepEnt(start, end) == start < end

RECURSIVE EntLoop(_, _)
EntLoop(ents, spans_loc) ==
    IF ents = <<>> THEN spans_loc
    ELSE LET ent == Head(ents) IN
         IF IntRaises(ent.start_char) \/ IntRaises(ent.end_char) \/ StrRaises(ent.type)
         THEN EntLoop(Tail(ents), spans_loc)
         ELSE IF KeepEnt(int(ent.start_char), int(ent.end_char))
              THEN EntLoop(Tail(ents),
                           Append(spans_loc, <<int(ent.start_char), int(ent.end_char),
                                               str(ent.type)>>))
              ELSE EntLoop(Tail(ents), spans_loc)

SpansFromDocEnts(doc_obj) == EntLoop(doc_obj.ents, <<>>)

(***************************************************************************)
(* _spans_from_tokens, lines 77-121: the body of the token loop as a       *)
(* function of the loop state st = [cur_start, cur_end, cur_type,          *)
(* spans_local] and the token.                                             *)
(***************************************************************************)
IsOpen(st) == ~IsNone(st.cur_start) /\ ~IsNone(st.cur_end) /\ ~IsNone(st.cur_type)

\* lines 87-88, 97-98, 117-118: append the open span if there is one
Flush(st) ==
    IF IsOpen(st)
    THEN Append(st.spans_local, <<Val(st.cur_start), Val(st.cur_end), Val(st.cur_type)>>)
    ELSE st.spans_local

Cleared(sl) ==
    [cur_start |-> None, cur_end |-> None, cur_type |-> None, spans_local |-> sl]

\* line 107
ContinuesAnyType(st, ent_type) == ~IsNone(st.cur_start)
Continues(st, ent_type) == st.cur_type = Some(ent_type) /\ ~IsNone(st.cur_start)

\* line 108
ExtendedNot(st, token) == st
Extended(st, token) == [st EXCEPT !.cur_end = Some(token.end_char)]

\* lines 113-115
Standalone(st, token, ent_type) ==
    Cleared(Append(st.spans_local, <<token.start_char, token.end_char, ent_type>>))

TokenBodySingleOpens(st, token) ==
    LET ner_tag == token.ner
        parts == Split(ner_tag)
        prefix == parts[1]
        ent_type == parts[Len(parts)]
    IN  IF ner_tag = OTag THEN Cleared(Flush(st))
        ELSE IF prefix \in {<<"B">>, <<"S">>, <<"U">>}
        THEN [cur_start |-> Some(token.start_char),
              cur_end |-> Some(token.end_char),
              cur_type |-> Some(ent_type),
              spans_local |-> Flush(st)]
        ELSE IF prefix \in {<<"I">>, <<"E">>, <<"L">>}
        THEN IF Continues(st, ent_type)
             THEN IF prefix \in {<<"E">>, <<"L">>}
                  THEN Cleared(Flush(Extended(st, token)))
                  ELSE Extended(st, token)
             ELSE Standalone(st, token, ent_type)
        ELSE st

TokenBody(st, token) ==
    LET ner_tag == token.ner
        parts == Split(ner_tag)
        prefix == parts[1]
        ent_type == parts[Len(parts)]
    IN  IF ner_tag = OTag THEN Cleared(Flush(st))
        ELSE IF prefix \in {<<"B">>, <<"S">>, <<"U">>}
        THEN LET opened == [cur_start |-> Some(token.start_char),
                            cur_end |-> Some(token.end_char),
                            cur_type |-> Some(ent_type),
                            spans_local |-> Flush(st)]
             IN  IF prefix \in {<<"S">>, <<"U">>} THEN Cleared(Flush(opened))
                 ELSE opened
        ELSE IF prefix \in {<<"I">>, <<"E">>, <<"L">>}
        THEN IF Continues(st, ent_type)
             THEN IF prefix \in {<<"E">>, <<"L">>}
                  THEN Cleared(Flush(Extended(st, token)))
                  ELSE Extended(st, token)
             ELSE Standalone(st, token, ent_type)
        ELSE st

(***************************************************************************)
(* Lines 127-137: the stable sort by start and the sweep.                  *)
(***************************************************************************)
\* sorted(spans, key=lambda x: x[0]): stable insertion by start
RECURSIVE InsertBeforeEqual(_, _)
InsertBeforeEqual(x, s) ==
    IF s = <<>> THEN <<x>>
    ELSE IF x[1] <= Head(s)[1] THEN <<x>> \o s
    ELSE <<Head(s)>> \o InsertBeforeEqual(x, Tail(s))

RECURSIVE InsertByStart(_, _)
InsertByStart(x, s) ==
    IF s = <<>> THEN <<x>>
    ELSE IF x[1] < Head(s)[1] THEN <<x>> \o s
    ELSE <<Head(s)>> \o InsertByStart(x, Tail(s))

Unsorted(s) == s

RECURSIVE Sorted(_)
Sorted(s) ==
    IF s = <<>> THEN <<>>
    ELSE InsertByStart(s[Len(s)], Sorted(SubSeq(s, 1, Len(s) - 1)))

\* line 131
SkipsDegenerateOnly(start, end, last) == start >= end
SkipsOverlapOnly(start, end, last) == start < last
SkipsTouching(start, end, last) == start >= end \/ start <= last
Skips(start, end, last) == start >= end \/ start < last

(***************************************************************************)
(* anonymize_with_stanza as a state machine over a parsed document.        *)
(***************************************************************************)
LoopState == [cur_start |-> cur_start, cur_end |-> cur_end, cur_type |-> cur_type,
              spans_local |-> spans_local]

SetLoopState(st) ==
    /\ cur_start' = st.cur_start
    /\ cur_end' = st.cur_end
    /\ cur_type' = st.cur_type
    /\ spans_local' = st.spans_local

\* the state at line 59, for the input txt and the document d the tagger returned
AnonStart(txt, d) ==
    /\ text = txt
    /\ doc = d
    /\ pc = "ents"
    /\ spans = <<>>
    /\ si = 1
    /\ ti = 1
    /\ cur_start = None
    /\ cur_end = None
    /\ cur_type = None
    /\ spans_local = <<>>
    /\ spans_sorted = <<>>
    /\ k = 1
    /\ last_idx = 0
    /\ result_parts = <<>>
    /\ accepted = <<>>
    /\ output = None

\* line 124: if not spans
PrimaryEmptyAlways(sp) == TRUE
PrimaryEmpty(sp) == sp = <<>>

\* lines 123-124: the primary path, and the choice of the fallback
DocEnts ==
    /\ pc = "ents"
    /\ spans' = SpansFromDocEnts(doc)
    /\ pc' = IF PrimaryEmpty(spans') THEN "tokens" ELSE "sort"
    /\ UNCHANGED <<text, doc, si, ti, cur_start, cur_end, cur_type, spans_local,
                   spans_sorted, k, last_idx, result_parts, accepted, output>>
    /\ UNCHANGED <<pipeVars, guiVars>>

\* lines 84-115: one iteration of the token loop
TokenStep ==
    /\ pc = "tokens"
    /\ si <= Len(doc.sentences)
    /\ ti <= Len(doc.sentences[si])
    /\ SetLoopState(TokenBody(LoopState, doc.sentences[si][ti]))
    /\ ti' = ti + 1
    /\ UNCHANGED <<text, doc, pc, spans, si, spans_sorted, k, last_idx,
                   result_parts, accepted, output>>
    /\ UNCHANGED <<pipeVars, guiVars>>

SentenceEndKeepsOpen ==
    /\ pc = "tokens"
    /\ si <= Len(doc.sentences)
    /\ ti > Len(doc.sentences[si])
    /\ si' = si + 1
    /\ ti' = 1
    /\ UNCHANGED <<text, doc, pc, spans, spans_sorted, k, last_idx,
                   result_parts, accepted, output>>
    /\ UNCHANGED <<cur_start, cur_end, cur_type, spans_local>>
    /\ UNCHANGED <<pipeVars, guiVars>>

\* lines 117-119: the end of a sentence
SentenceEnd ==
    /\ pc = "tokens"
    /\ si <= Len(doc.sentences)
    /\ ti > Len(doc.sentences[si])
    /\ IF IsOpen(LoopState)
       THEN SetLoopState(Cleared(Flush(LoopState)))
       ELSE UNCHANGED <<cur_start, cur_end, cur_type, spans_local>>
    /\ si' = si + 1
    /\ ti' = 1
    /\ UNCHANGED <<text, doc, pc, spans, spans_sorted, k, last_idx,
                   result_parts, accepted, output>>
    /\ UNCHANGED <<pipeVars, guiVars>>

\* lines 121 and 125: the fallback's span list replaces the empty one
TokensReturn ==
    /\ pc = "tokens"
    /\ si > Len(doc.sentences)
    /\ spans' = spans_local
    /\ pc' = "sort"
    /\ UNCHANGED <<text, doc, si, ti, cur_start, cur_end, cur_type, spans_local,
                   spans_sorted, k, last_idx, result_parts, accepted, output>>
    /\ UNCHANGED <<pipeVars, guiVars>>

\* lines 127-129
Sort ==
    /\ pc = "sort"
    /\ spans_sorted' = Sorted(spans)
    /\ result_parts' = <<>>
    /\ last_idx' = 0
    /\ k' = 1
    /\ pc' = "sweep"
    /\ UNCHANGED <<text, doc, spans, si, ti, cur_start, cur_end, cur_type,
                   spans_local, accepted, output>>
    /\ UNCHANGED <<pipeVars, guiVars>>

\* lines 130-135: one iteration of the sweep
SweepStepMerging ==
    /\ pc = "sweep"
    /\ k <= Len(spans_sorted)
    /\ LET start == spans_sorted[k][1]
           end == spans_sorted[k][2]
           label == spans_sorted[k][3]
       IN  IF Skips(start, end, last_idx)
           THEN /\ last_idx' = Max(last_idx, end)
                /\ UNCHANGED <<result_parts, accepted>>
           ELSE /\ result_parts' = result_parts \o
                                   <<Slice(text, last_idx, start), Bracket(label)>>
                /\ last_idx' = end
                /\ accepted' = Append(accepted, spans_sorted[k])
    /\ k' = k + 1
    /\ UNCHANGED <<text, doc, pc, spans, si, ti, cur_start, cur_end, cur_type,
                   spans_local, spans_sorted, output>>
    /\ UNCHANGED <<pipeVars, guiVars>>

SweepStep ==
    /\ pc = "sweep"
    /\ k <= Len(spans_sorted)
    /\ LET start == spans_sorted[k][1]
           end == spans_sorted[k][2]
           label == spans_sorted[k][3]
       IN  IF Skips(start, end, last_idx)
           THEN UNCHANGED <<result_parts, last_idx, accepted>>
           ELSE /\ result_parts' = result_parts \o
                                   <<Slice(text, last_idx, start), Bracket(label)>>
                /\ last_idx' = end
                /\ accepted' = Append(accepted, spans_sorted[k])
    /\ k' = k + 1
    /\ UNCHANGED <<text, doc, pc, spans, si, ti, cur_start, cur_end, cur_type,
                   spans_local, spans_sorted, output>>
    /\ UNCHANGED <<pipeVars, guiVars>>

\* lines 136-137
Finish ==
    /\ pc = "sweep"
    /\ k > Len(spans_sorted)
    /\ result_parts' = Append(result_parts, SliceFrom(text, last_idx))
    /\ output' = Some(Join(result_parts'))
    /\ pc' = "done"
    /\ UNCHANGED <<text, doc, spans, si, ti, cur_start, cur_end, cur_type,
                   spans_local, spans_sorted, k, last_idx, accepted>>
    /\ UNCHANGED <<pipeVars, guiVars>>

AnonNext ==
    \/ DocEnts
    \/ TokenStep
    \/ SentenceEnd
    \/ TokensReturn
    \/ Sort
    \/ SweepStep
    \/ Finish

(***************************************************************************)
(* _ensure_pipeline is not running in the specifications of                *)
(* anonymize_with_stanza: the pipeline is loaded (line 58 returned).       *)
(***************************************************************************)
Callers == 1..NCallers

PipeLoaded ==
    /\ lock = None
    /\ stanza_pipeline = Some(1)
    /\ tpc = [c \in Callers |-> "idle"]
    /\ ret = [c \in Callers |-> <<>>]
    /\ calls = [c \in Callers |-> 0]
    /\ built = 1
    /\ failed = 0

\* main.py lines 81-89: the RootWidget as constructed; the front-end takes no
\* step in the specifications of anonymizer.py
RootWidgetInit ==
    /\ input_text = <<>>
    /\ output_text = <<>>
    /\ status_text = "Ready. Stanza model will be loaded on first run."
    /\ model_info_text = "Models: not checked"
    /\ pipeline_loaded = FALSE
    /\ pipeline_loading = FALSE
    /\ app_started = FALSE
    /\ loaders = <<>>
    /\ workers = <<>>
    /\ clock = <<>>

(***************************************************************************)
(* Inputs.                                                                 *)
(***************************************************************************)
Letters == <<"a", "b", "c", "d", "e", "f", "g", "h">>
TextOfLen(n) == [i \in 1..n |-> Letters[((i - 1) % Len(Letters)) + 1]]

Doc(ents, sentences) == [ents |-> ents, sentences |-> sentences]

\* Documents whose fallback spans are any list of up to MaxSpans spans over the
\* offsets 0..MaxOff: no entity records, one sentence of single-token entities.
SweepTokens ==
    {Tok(s, e, Tag("S", T)) : s \in 0..MaxOff, e \in 0..MaxOff, T \in {PERSON, ORG}}
SweepTexts == {TextOfLen(n) : n \in 0..(MaxOff + 1)}

\* "Alice Bobson here" with the entities A = (0, 5, PERSON) and B = (3, 8, ORG)
AliceText == <<"A", "l", "i", "c", "e", " ", "B", "o", "b", "s", "o", "n", " ",
               "h", "e", "r", "e">>
SpanA == <<0, 5, PERSON>>
SpanB == <<3, 8, ORG>>
EntOf(span) == Ent(IntVal(span[1]), IntVal(span[2]), StrVal(span[3]))
AliceDocs == {Doc(<<EntOf(SpanA), EntOf(SpanB)>>, <<>>),
              Doc(<<EntOf(SpanB), EntOf(SpanA)>>, <<>>)}

\* a third candidate, "Bobson": it overlaps B but starts after the end of A
SpanC == <<6, 12, PERSON>>
AliceThreeDoc == Doc(<<EntOf(SpanA), EntOf(SpanB), EntOf(SpanC)>>, <<>>)

\* "abcd" in two sentences: B-PERSON, I-PERSON on adjacent tokens, then S-ORG
\* and O; the same tokens with the two sentences listed in the other order
AbcdText == <<"a", "b", "c", "d">>
AbcdFirst == <<Tok(0, 1, Tag("B", PERSON)), Tok(1, 2, Tag("I", PERSON))>>
AbcdSecond == <<Tok(2, 3, Tag("S", ORG)), Tok(3, 4, OTag)>>
AbcdDocs == {Doc(<<>>, <<AbcdFirst, AbcdSecond>>), Doc(<<>>, <<AbcdSecond, AbcdFirst>>)}

InitSweep ==
    /\ \/ \E txt \in SweepTexts, n \in 0..MaxSpans :
              \E toks \in [1..n -> SweepTokens] : AnonStart(txt, Doc(<<>>, <<toks>>))
       \/ \E d \in AliceDocs : AnonStart(AliceText, d)
       \/ AnonStart(AliceText, AliceThreeDoc)
       \/ \E d \in AbcdDocs : AnonStart(AbcdText, d)
    /\ PipeLoaded
    /\ RootWidgetInit

SpecSweep == InitSweep /\ [][AnonNext]_vars

(***************************************************************************)
(* Documents of the fallback path: no entity records, every sequence of up *)
(* to MaxTokens tags, in one sentence or cut into two (either may be       *)
(* empty).  Token j of the document is the one-character word at offsets   *)
(* (2(j-1), 2j-1), as a tokenizer lays words out.                          *)
(***************************************************************************)
Prefixes == {"B", "I", "E", "S", "L", "U"}
Types == {PERSON, GPE}
Tags == {OTag} \cup {Tag(p, T) : p \in Prefixes, T \in Types}

WordTok(j, tag) == Tok(2 * (j - 1), 2 * j - 1, tag)
WordToks(tags) == [j \in 1..Len(tags) |-> WordTok(j, tags[j])]

\* one sentence (c = -1), or two sentences cut after token c
Sentences(toks, c) ==
    IF c < 0 THEN <<toks>>
    ELSE <<SubSeq(toks, 1, c), SubSeq(toks, c + 1, Len(toks))>>

TagText == TextOfLen(2 * MaxTokens)

\* "Barack Obama visited." tagged B-PERSON, I-PERSON, O
BarackText == <<"B", "a", "r", "a", "c", "k", " ", "O", "b", "a", "m", "a", " ",
                "v", "i", "s", "i", "t", "e", "d", ".">>
BarackDoc == Doc(<<>>, <<<<Tok(0, 6, Tag("B", PERSON)), Tok(7, 12, Tag("I", PERSON)),
                           Tok(13, 20, OTag)>>>>)

\* "Paris is nice." with the lone token (0, 5) tagged S-GPE or U-GPE
ParisText == <<"P", "a", "r", "i", "s", " ", "i", "s", " ", "n", "i", "c", "e", ".">>
ParisDocs == {Doc(<<>>, <<<<Tok(0, 5, Tag(p, GPE))>>>>) : p \in {"S", "U"}}

\* "Mr. Smith" tagged O, I-PERSON: a continuation with no open span
SmithText == <<"M", "r", ".", " ", "S", "m", "i", "t", "h">>
SmithDoc == Doc(<<>>, <<<<Tok(0, 3, OTag), Tok(4, 9, Tag("I", PERSON))>>>>)

Init ==
    /\ \/ \E n \in 0..MaxTokens : \E tags \in [1..n -> Tags], c \in -1..n :
              AnonStart(TagText, Doc(<<>>, Sentences(WordToks(tags), c)))
       \/ AnonStart(BarackText, BarackDoc)
       \/ \E d \in ParisDocs : AnonStart(ParisText, d)
       \/ AnonStart(SmithText, SmithDoc)
    /\ PipeLoaded
    /\ RootWidgetInit

Next == AnonNext

Spec == Init /\ [][Next]_vars

(***************************************************************************)
(* Documents with entity records: up to MaxEnts records whose offsets are  *)
(* integers of 0..MaxEntOff or None and whose type is a label or missing,  *)
(* a record with numeric strings as offsets and one with None as type;     *)
(* and one sentence of tokens, whose offsets may be degenerate or out of   *)
(* order.                                                                  *)
(***************************************************************************)
NoneVal == [k |-> "none", v |-> 0]
MissingType == [k |-> "missing", v |-> <<>>]
OffVals == {IntVal(n) : n \in 0..MaxEntOff} \cup {NoneVal}
EntRecords ==
    {Ent(s, e, t) : s \in OffVals, e \in OffVals, t \in {StrVal(PERSON), MissingType}}
    \cup {Ent([k |-> "numstr", v |-> 0], [k |-> "numstr", v |-> 1], StrVal(ORG)),
          Ent(IntVal(0), IntVal(1), [k |-> "none", v |-> <<>>])}
EntTokens ==
    {<<>>,
     <<Tok(0, 1, OTag)>>,
     <<Tok(0, 1, Tag("S", GPE))>>,
     <<Tok(1, 1, Tag("S", GPE))>>,
     <<Tok(0, 1, Tag("B", GPE)), Tok(1, 2, Tag("I", GPE))>>,
     <<Tok(1, 2, Tag("B", GPE)), Tok(0, 1, Tag("I", GPE))>>}
EntText == TextOfLen(MaxEntOff + 1)

InitEnts ==
    /\ \E n \in 0..MaxEnts : \E ents \in [1..n -> EntRecords], toks \in EntTokens :
           AnonStart(EntText, Doc(ents, <<toks>>))
    /\ PipeLoaded
    /\ RootWidgetInit

SpecEnts == InitEnts /\ [][AnonNext]_vars

(***************************************************************************)
(* _ensure_pipeline, lines 17-43, called by Callers concurrently.  A call  *)
(* ends by returning the cached instance or by raising what                *)
(* stanza.Pipeline raised; the with statement releases the lock on both.   *)
(***************************************************************************)
Returned(inst) == [ok |-> TRUE, inst |-> inst]
Raised == [ok |-> FALSE, inst |-> 0]

\* the state while no text is being anonymized
AnonIdle ==
    /\ text = <<>>
    /\ doc = Doc(<<>>, <<>>)
    /\ pc = "idle"
    /\ spans = <<>>
    /\ si = 1
    /\ ti = 1
    /\ cur_start = None
    /\ cur_end = None
    /\ cur_type = None
    /\ spans_local = <<>>
    /\ spans_sorted = <<>>
    /\ k = 1
    /\ last_idx = 0
    /\ result_parts = <<>>
    /\ accepted = <<>>
    /\ output = None

\* lines 13-14: the module as imported
PipeInit ==
    /\ lock = None
    /\ stanza_pipeline = None
    /\ tpc = [c \in Callers |-> "idle"]
    /\ ret = [c \in Callers |-> <<>>]
    /\ calls = [c \in Callers |-> 0]
    /\ built = 0
    /\ failed = 0

\* what a failed construction leaves in the cache: nothing is assigned at line 40
CacheFailure(cache) == Some(0)
CacheAfterFailure(cache) == cache

\* leaving the with block of line 26, normally or by an exception
Release(c) == lock' = None

\* a caller enters _ensure_pipeline
Call(c) ==
    /\ tpc[c] = "idle"
    /\ calls[c] < MaxCalls
    /\ calls' = [calls EXCEPT ![c] = @ + 1]
    /\ tpc' = [tpc EXCEPT ![c] = "acquire"]
    /\ UNCHANGED <<lock, stanza_pipeline, ret, built, failed>>
    /\ UNCHANGED <<anonVars, guiVars>>

\* line 26: with _pipeline_lock
AcquireUnlocked(c) ==
    /\ tpc[c] = "acquire"
    /\ lock' = Some(c)
    /\ tpc' = [tpc EXCEPT ![c] = "check"]
    /\ UNCHANGED <<stanza_pipeline, ret, calls, built, failed>>
    /\ UNCHANGED <<anonVars, guiVars>>

Acquire(c) ==
    /\ tpc[c] = "acquire"
    /\ IsNone(lock)
    /\ lock' = Some(c)
    /\ tpc' = [tpc EXCEPT ![c] = "check"]
    /\ UNCHANGED <<stanza_pipeline, ret, calls, built, failed>>
    /\ UNCHANGED <<anonVars, guiVars>>

\* lines 27-28: the cached instance is returned
ReturnCached(c) ==
    /\ tpc[c] = "check"
    /\ ~IsNone(stanza_pipeline)
    /\ ret' = [ret EXCEPT ![c] = Append(@, Returned(Val(stanza_pipeline)))]
    /\ Release(c)
    /\ tpc' = [tpc EXCEPT ![c] = "idle"]
    /\ UNCHANGED <<stanza_pipeline, calls, built, failed>>
    /\ UNCHANGED <<anonVars, guiVars>>

\* lines 27, 31-38: no cached instance; stanza.download runs, and what it
\* raises is swallowed
Download(c) ==
    /\ tpc[c] = "check"
    /\ IsNone(stanza_pipeline)
    /\ tpc' = [tpc EXCEPT ![c] = "construct"]
    /\ UNCHANGED <<lock, stanza_pipeline, ret, calls, built, failed>>
    /\ UNCHANGED <<anonVars, guiVars>>

\* lines 40-43: stanza.Pipeline returns, the instance is cached and returned
ConstructOk(c) ==
    /\ tpc[c] = "construct"
    /\ built' = built + 1
    /\ stanza_pipeline' = Some(built')
    /\ ret' = [ret EXCEPT ![c] = Append(@, Returned(built'))]
    /\ Release(c)
    /\ tpc' = [tpc EXCEPT ![c] = "idle"]
    /\ UNCHANGED <<calls, failed>>
    /\ UNCHANGED <<anonVars, guiVars>>

\* line 40: stanza.Pipeline raises; the exception leaves the function
ConstructRaises(c) ==
    /\ tpc[c] = "construct"
    /\ failed' = failed + 1
    /\ stanza_pipeline' = CacheAfterFailure(stanza_pipeline)
    /\ ret' = [ret EXCEPT ![c] = Append(@, Raised)]
    /\ Release(c)
    /\ tpc' = [tpc EXCEPT ![c] = "idle"]
    /\ UNCHANGED <<calls, built>>
    /\ UNCHANGED <<anonVars, guiVars>>

PipeNext ==
    \E c \in Callers :
        \/ Call(c)
        \/ Acquire(c)
        \/ ReturnCached(c)
        \/ Download(c)
        \/ ConstructOk(c)
        \/ ConstructRaises(c)

InitPipeline == AnonIdle /\ PipeInit /\ RootWidgetInit

SpecPipeline == InitPipeline /\ [][PipeNext]_vars

(***************************************************************************)
(* main.py: the Kivy front-end.  The main thread runs on_start, the        *)
(* handlers of the widgets and the callbacks given to Clock.schedule_once; *)
(* _load_pipeline_background and every _worker run in threads of their     *)
(* own.  _ensure_pipeline runs under _pipeline_lock from its first to its  *)
(* last statement, so a call of it is one step here.                       *)
(***************************************************************************)
\* anonymizer.py lines 83-119 as a function: the token loop of one sentence
RECURSIVE TokenLoop(_, _)
TokenLoop(st, tokens) ==
    IF tokens = <<>> THEN st
    ELSE TokenLoop(TokenBody(st, Head(tokens)), Tail(tokens))

RECURSIVE SentenceLoop(_, _)
SentenceLoop(st, sentences) ==
    IF sentences = <<>> THEN st.spans_local
    ELSE LET after == TokenLoop(st, Head(sentences))
         IN  SentenceLoop(IF IsOpen(after) THEN Cleared(Flush(after)) ELSE after,
                          Tail(sentences))

SpansFromTokens(doc_obj) == SentenceLoop(Cleared(<<>>), doc_obj.sentences)

\* anonymizer.py lines 130-137 as a function
RECURSIVE Sweep(_, _, _, _)
Sweep(txt, sorted, last, parts) ==
    IF sorted = <<>> THEN Join(Append(parts, SliceFrom(txt, last)))
    ELSE LET start == Head(sorted)[1]
             end == Head(sorted)[2]
             label == Head(sorted)[3]
         IN  IF Skips(start, end, last) THEN Sweep(txt, Tail(sorted), last, parts)
             ELSE Sweep(txt, Tail(sorted), end,
                        parts \o <<Slice(txt, last, start), Bracket(label)>>)

\* anonymizer.py lines 123-137: the string anonymize_with_stanza returns for
\* the text and the document the pipeline made of it
Anonymized(txt, doc_obj) ==
    LET primary == SpansFromDocEnts(doc_obj)
        chosen == IF PrimaryEmpty(primary) THEN SpansFromTokens(doc_obj) ELSE primary
    IN  Sweep(txt, Sorted(chosen), 0, <<>>)

\* what the user can have in the input box: nothing, blanks, and two texts
\* with the documents the pipeline makes of them
BlankText == <<" ", " ">>
InputTexts == {<<>>, BlankText, AliceText, ParisText}

nlp(txt) ==
    IF txt = AliceText THEN Doc(<<EntOf(SpanA), EntOf(SpanB)>>, <<>>)
    ELSE IF txt = ParisText THEN Doc(<<>>, <<<<Tok(0, 5, Tag("S", GPE))>>>>)
    ELSE Doc(<<>>, <<>>)

\* str.strip(): leading and trailing blanks removed
RECURSIVE LStrip(_)
LStrip(s) == IF s # <<>> /\ Head(s) = " " THEN LStrip(Tail(s)) ELSE s

RECURSIVE RStrip(_)
RStrip(s) ==
    IF s # <<>> /\ s[Len(s)] = " " THEN RStrip(SubSeq(s, 1, Len(s) - 1)) ELSE s

strip(s) == RStrip(LStrip(s))

\* the callbacks of lines 158-163
SetStatus(s) == [attr |-> "status_text", status |-> s, res |-> <<>>]
SetOutput(r) == [attr |-> "output_text", status |-> "", res |-> r]

GuiInit == AnonIdle /\ PipeInit /\ RootWidgetInit

\* lines 105-110: RootWidget.ensure_pipeline
EnsurePipeline ==
    IF ~pipeline_loading /\ ~pipeline_loaded
    THEN /\ pipeline_loading' = TRUE
         /\ loaders' = Append(loaders, "start")
    ELSE UNCHANGED <<pipeline_loading, loaders>>

\* lines 175-182: AnonymizerApp.on_start
OnStart ==
    /\ ~app_started
    /\ app_started' = TRUE
    /\ EnsurePipeline
    /\ UNCHANGED <<input_text, output_text, status_text, model_info_text,
                   pipeline_loaded, workers, clock>>
    /\ UNCHANGED <<anonVars, pipeVars>>

\* lines 93-94: the loader thread starts
LoaderBegin(l) ==
    /\ loaders[l] = "start"
    /\ status_text' = "Checking / loading Stanza models..."
    /\ model_info_text' = "Models: downloading or locating models..."
    /\ loaders' = [loaders EXCEPT ![l] = "call"]
    /\ UNCHANGED <<input_text, output_text, pipeline_loaded, pipeline_loading,
                   app_started, workers, clock>>
    /\ UNCHANGED <<anonVars, pipeVars>>

\* anonymizer.py lines 26-43, returning: the cached instance, or a new one
EnsureReturns ==
    IF IsNone(stanza_pipeline)
    THEN /\ built' = built + 1
         /\ stanza_pipeline' = Some(built')
         /\ UNCHANGED <<lock, tpc, ret, calls, failed>>
    ELSE UNCHANGED pipeVars

\* lines 96-100: _ensure_pipeline returned
LoaderOk(l) ==
    /\ loaders[l] = "call"
    /\ EnsureReturns
    /\ pipeline_loaded' = TRUE
    /\ pipeline_loading' = FALSE
    /\ status_text' = "Stanza loaded. Ready."
    /\ model_info_text' = "Models: available"
    /\ loaders' = [loaders EXCEPT ![l] = "done"]
    /\ UNCHANGED <<input_text, output_text, app_started, workers, clock>>
    /\ UNCHANGED anonVars

\* lines 96, 101-103: stanza.Pipeline raised in _ensure_pipeline; the handler
\* leaves _pipeline_loading as it is
LoaderFails(l) ==
    /\ loaders[l] = "call"
    /\ IsNone(stanza_pipeline)
    /\ failed' = failed + 1
    /\ stanza_pipeline' = CacheAfterFailure(stanza_pipeline)
    /\ status_text' = "Failed to load Stanza"
    /\ model_info_text' = "Models: not available"
    /\ loaders' = [loaders EXCEPT ![l] = "failed"]
    /\ UNCHANGED <<lock, tpc, ret, calls, built>>
    /\ UNCHANGED <<input_text, output_text, pipeline_loaded, pipeline_loading,
                   app_started, workers, clock>>
    /\ UNCHANGED anonVars

\* KV line 34: the user edits the input box
SetInput(txt) ==
    /\ app_started
    /\ txt # input_text
    /\ input_text' = txt
    /\ UNCHANGED <<output_text, status_text, model_info_text, pipeline_loaded,
                   pipeline_loading, app_started, loaders, workers, clock>>
    /\ UNCHANGED <<anonVars, pipeVars>>

\* lines 145-166: RootWidget.anonymize_text, the on_release of the Anonymize
\* button, which KV line 49 disables while pipeline_loaded is false
AnonymizeText ==
    /\ app_started
    /\ pipeline_loaded
    /\ Len(workers) < MaxRequests
    /\ IF strip(input_text) = <<>>
       THEN /\ status_text' = "Input is empty."
            /\ UNCHANGED <<pipeline_loading, loaders, workers>>
       ELSE /\ EnsurePipeline
            /\ workers' = Append(workers,
                                 [text |-> input_text, wpc |-> "start", result |-> <<>>])
            /\ UNCHANGED status_text
    /\ UNCHANGED <<input_text, output_text, model_info_text, pipeline_loaded,
                   app_started, clock>>
    /\ UNCHANGED <<anonVars, pipeVars>>

\* line 158: the worker thread starts
WorkerBegin(w) ==
    /\ workers[w].wpc = "start"
    /\ clock' = Append(clock, SetStatus("Anonymizing..."))
    /\ workers' = [workers EXCEPT ![w].wpc = "run"]
    /\ UNCHANGED <<input_text, output_text, status_text, model_info_text,
                   pipeline_loaded, pipeline_loading, app_started, loaders>>
    /\ UNCHANGED <<anonVars, pipeVars>>

\* lines 159-161: anonymize_with_stanza returned
WorkerOk(w) ==
    /\ workers[w].wpc = "run"
    /\ EnsureReturns
    /\ LET result == Anonymized(workers[w].text, nlp(workers[w].text)) IN
       /\ clock' = clock \o <<SetOutput(result), SetStatus("Anonymization complete.")>>
       /\ workers' = [workers EXCEPT ![w].wpc = "ok", ![w].result = result]
    /\ UNCHANGED <<input_text, output_text, status_text, model_info_text,
                   pipeline_loaded, pipeline_loading, app_started, loaders>>
    /\ UNCHANGED anonVars

\* lines 159, 162-163: the pipeline raised on the text
WorkerFails(w) ==
    /\ workers[w].wpc = "run"
    /\ clock' = Append(clock, SetStatus("Error during anonymization"))
    /\ workers' = [workers EXCEPT ![w].wpc = "failed"]
    /\ UNCHANGED <<input_text, output_text, status_text, model_info_text,
                   pipeline_loaded, pipeline_loading, app_started, loaders>>
    /\ UNCHANGED <<anonVars, pipeVars>>

\* the main thread runs the oldest scheduled callback: setattr(self, ...)
ClockTick ==
    /\ clock # <<>>
    /\ IF Head(clock).attr = "status_text"
       THEN status_text' = Head(clock).status /\ UNCHANGED output_text
       ELSE output_text' = Head(clock).res /\ UNCHANGED status_text
    /\ clock' = Tail(clock)
    /\ UNCHANGED <<input_text, model_info_text, pipeline_loaded, pipeline_loading,
                   app_started, loaders, workers>>
    /\ UNCHANGED <<anonVars, pipeVars>>

GuiNext ==
    \/ OnStart
    \/ \E l \in 1..Len(loaders) : LoaderBegin(l)
    \/ \E l \in 1..Len(loaders) : LoaderOk(l)
    \/ \E l \in 1..Len(loaders) : LoaderFails(l)
    \/ \E txt \in InputTexts : SetInput(txt)
    \/ AnonymizeText
    \/ \E w \in 1..Len(workers) : WorkerBegin(w)
    \/ \E w \in 1..Len(workers) : WorkerOk(w)
    \/ \E w \in 1..Len(workers) : WorkerFails(w)
    \/ ClockTick

SpecGui == GuiInit /\ [][GuiNext]_vars

(***************************************************************************)
(* Properties of the sort and the sweep, checked under SpecSweep.          *)
(***************************************************************************)
Done == pc = "done"

\* the characters of txt at the 0-based positions a .. b-1 that exist
CharsBetween(txt, a, b) ==
    LET lo == IF a < Len(txt) THEN a ELSE Len(txt)
        hi == IF b < Len(txt) THEN b ELSE Len(txt)
    IN  [j \in 1..(hi - lo) |-> txt[lo + j]]

\* text[from:s1] + "[" + l1 + "]" + text[e1:s2] + ... + text[en:]
RECURSIVE Spliced(_, _, _)
Spliced(txt, acc, from) ==
    IF acc = <<>> THEN CharsBetween(txt, from, Len(txt))
    ELSE CharsBetween(txt, from, Head(acc)[1])
         \o <<"[">> \o Head(acc)[3] \o <<"]">>
         \o Spliced(txt, Tail(acc), Head(acc)[2])

\* the 0-based position p lies in none of the spans acc
OutsideAll(acc, p) == \A i \in 1..Len(acc) : ~(acc[i][1] <= p /\ p < acc[i][2])

\* the characters of txt from position p on that lie outside the spans acc
RECURSIVE OutsideChars(_, _, _)
OutsideChars(txt, acc, p) ==
    IF p >= Len(txt) THEN <<>>
    ELSE (IF OutsideAll(acc, p) THEN <<txt[p + 1]>> ELSE <<>>)
         \o OutsideChars(txt, acc, p + 1)

\* no input text of the model holds a character of a label or a bracket
LabelChars == {"[", "]", "P", "E", "R", "S", "O", "N", "G"}
IsTextChar(ch) == ch \notin LabelChars

\* C1: the spans the sweep accepts each have start < end, and consecutive
\* accepted spans i, i+1 satisfy end(i) <= start(i+1): they are strictly
\* increasing by start and pairwise non-overlapping, whatever the span list.
C1_AcceptedOrdered ==
    /\ \A i \in 1..Len(accepted) : accepted[i][1] < accepted[i][2]
    /\ \A i \in 1..(Len(accepted) - 1) : accepted[i][2] <= accepted[i + 1][1]
    /\ \A i \in 1..(Len(accepted) - 1) : accepted[i][1] < accepted[i + 1][1]

\* two spans accepted out of a span list that was not in order
C1_Witness ==
    /\ Done
    /\ Len(accepted) >= 2
    /\ spans # spans_sorted

\* C2: the returned string is text[0:s1] + "[" + l1 + "]" + text[e1:s2] + ...
\* + text[en:] over the accepted spans in order; its characters other than
\* those of the labels are exactly the input characters outside all accepted
\* spans, once each and in their order.
C2_OutputIsSplice ==
    Done =>
        /\ Val(output) = Spliced(text, accepted, 0)
        /\ SelectSeq(Val(output), IsTextChar) = OutsideChars(text, accepted, 0)

\* an accepted span with text kept on both of its sides, and a discarded span
C2_Witness ==
    /\ Done
    /\ Len(accepted) = 1
    /\ Len(spans_sorted) = 2
    /\ accepted[1][1] > 0
    /\ accepted[1][2] < Len(text)

\* C4 as stated: "Alice Bobson here" with A = (0, 5, PERSON) and
\* B = (3, 8, ORG) keeps A, discards B and returns "[PERSON]son here".
AliceRun == Done /\ text = AliceText /\ doc \in AliceDocs
C4_AsStated ==
    AliceRun =>
        /\ accepted = <<SpanA>>
        /\ Val(output) = <<"[", "P", "E", "R", "S", "O", "N", "]",
                           "s", "o", "n", " ", "h", "e", "r", "e">>

\* C4 amended: A is kept and B discarded entirely, so the text from offset 5
\* on is kept whole and the output is "[PERSON] Bobson here".
C4_AliceOutput ==
    AliceRun =>
        /\ accepted = <<SpanA>>
        /\ Val(output) = <<"[", "P", "E", "R", "S", "O", "N", "]", " ",
                           "B", "o", "b", "s", "o", "n", " ", "h", "e", "r", "e">>

\* the run in which the tagger lists B before A
C4_Witness == AliceRun /\ spans = <<SpanB, SpanA>>

\* C10: when the span list is empty, and when the sweep discards every span
\* of it, the returned string is the input string.
C10_NoSpanNoChange ==
    Done => /\ spans = <<>> => Val(output) = text
            /\ accepted = <<>> => Val(output) = text

\* a non-empty text, a non-empty span list, every span discarded
C10_Witness ==
    /\ Done
    /\ text # <<>>
    /\ spans # <<>>
    /\ accepted = <<>>

(***************************************************************************)
(* Properties of the fallback path, checked under Spec.  A tag of the      *)
(* documents is "O" or PREFIX-TYPE with a one-character prefix.            *)
(***************************************************************************)
PrefixOf(tag) == tag[1]
TypeOf(tag) == SubSeq(tag, 3, Len(tag))
Extracted == pc \in {"sort", "sweep", "done"}
InTokenLoop == pc = "tokens" /\ si <= Len(doc.sentences)

\* TokenStep is about to read a continuation token (I, E or L) whose type is
\* not the type of an open span: no span is open, or one of another type is
MalformedContinuation ==
    /\ InTokenLoop
    /\ ti <= Len(doc.sentences[si])
    /\ doc.sentences[si][ti].ner # OTag
    /\ PrefixOf(doc.sentences[si][ti].ner) \in {"I", "E", "L"}
    /\ cur_type # Some(TypeOf(doc.sentences[si][ti].ner))

\* C5: the step that reads a continuation token (prefix I, E or L) while no
\* span is open, or while the open span has another type, appends exactly
\* the one span (token.start, token.end, token type) and leaves no span
\* open: the token is neither dropped nor added to the open span.  Tags
\* O, I-PERSON with the second token at (4, 9) give the one span
\* (4, 9, PERSON).
C5_MalformedContinuation ==
    /\ [][MalformedContinuation =>
            LET token == doc.sentences[si][ti] IN
            /\ spans_local' = Append(spans_local,
                   <<token.start_char, token.end_char, TypeOf(token.ner)>>)
            /\ cur_start' = None
            /\ cur_end' = None
            /\ cur_type' = None]_vars
    /\ []((Extracted /\ doc = SmithDoc) => spans = <<(<<4, 9, PERSON>>)>>)

\* a continuation token has just been read while a span of another type,
\* opened by the token before it, was open
C5_Witness ==
    /\ InTokenLoop
    /\ ti = 3
    /\ PrefixOf(doc.sentences[si][1].ner) = "B"
    /\ PrefixOf(doc.sentences[si][2].ner) \in {"I", "E", "L"}
    /\ TypeOf(doc.sentences[si][1].ner) # TypeOf(doc.sentences[si][2].ner)
    /\ spans_local = <<(<<2, 3, TypeOf(doc.sentences[si][2].ner)>>)>>
    /\ cur_type = None

\* tokens i .. j of the sentence are B-T followed by I-T tokens only
IsRun(sent, i, j) ==
    /\ PrefixOf(sent[i].ner) = "B"
    /\ \A n \in (i + 1)..j :
           /\ PrefixOf(sent[n].ner) = "I"
           /\ TypeOf(sent[n].ner) = TypeOf(sent[i].ner)

\* the run i .. j is closed by the token E-T or L-T that follows it
ClosedByEnd(sent, i, j) ==
    /\ j < Len(sent)
    /\ PrefixOf(sent[j + 1].ner) \in {"E", "L"}
    /\ TypeOf(sent[j + 1].ner) = TypeOf(sent[i].ner)

\* the run i .. j is ended by the end of the sentence or by O, B, S or U
EndedByOther(sent, i, j) ==
    \/ j = Len(sent)
    \/ /\ j < Len(sent)
       /\ \/ sent[j + 1].ner = OTag
          \/ PrefixOf(sent[j + 1].ner) \in {"B", "S", "U"}

\* the emitted spans that share a character with [from, to)
SpansWithin(from, to) ==
    {n \in 1..Len(spans) : spans[n][1] < to /\ spans[n][2] > from}

OneSpan(from, to, type) ==
    /\ Cardinality(SpansWithin(from, to)) = 1
    /\ \A n \in SpansWithin(from, to) : spans[n] = <<from, to, type>>

\* C6: a run B-T, I-T, ..., I-T (k >= 0 I-T tokens) inside one sentence that
\* is ended by an O token, by a B, S or U token or by the end of the
\* sentence yields exactly one span, from the start of the B token to the
\* end of the last I-T token; closed by an E-T or L-T token it yields
\* exactly one span that ends at the end of that token.  "Barack Obama
\* visited." tagged B-PERSON, I-PERSON, O yields the single span
\* (0, 12, PERSON) and the output "[PERSON] visited.".
C6_RunYieldsOneSpan ==
    /\ Extracted =>
         \A s \in 1..Len(doc.sentences) :
           LET sent == doc.sentences[s] IN
           \A i \in 1..Len(sent) : \A j \in i..Len(sent) :
             (sent[i].ner # OTag /\ IsRun(sent, i, j)) =>
               /\ EndedByOther(sent, i, j) =>
                    OneSpan(sent[i].start_char, sent[j].end_char, TypeOf(sent[i].ner))
               /\ ClosedByEnd(sent, i, j) =>
                    OneSpan(sent[i].start_char, sent[j + 1].end_char,
                            TypeOf(sent[i].ner))
    /\ (Extracted /\ doc = BarackDoc) => spans = <<(<<0, 12, PERSON>>)>>
    /\ (Done /\ doc = BarackDoc) =>
         Val(output) = <<"[", "P", "E", "R", "S", "O", "N", "]", " ",
                         "v", "i", "s", "i", "t", "e", "d", ".">>

\* the tags B-GPE, I-GPE, L-GPE in one sentence, redacted
C6_Witness ==
    /\ Done
    /\ doc.sentences = <<WordToks(<<Tag("B", GPE), Tag("I", GPE), Tag("L", GPE)>>)>>

(***************************************************************************)
(* Properties of the two extraction paths, checked under SpecEnts.         *)
(***************************************************************************)
\* an entity record whose three fields convert
Converts(ent) ==
    /\ ent.start_char.k \in {"int", "numstr"}
    /\ ent.end_char.k \in {"int", "numstr"}
    /\ ent.type.k # "missing"

GoodEnt(ent) == Converts(ent) /\ ent.start_char.v < ent.end_char.v

\* at least one entity record converts to a span with start < end
PrimaryYields == \E n \in 1..Len(doc.ents) : GoodEnt(doc.ents[n])

\* the spans the token loop emits for the one-sentence documents of SpecEnts:
\* a token S-T alone, or the tokens B-T, I-T together
TokenSpans(toks) ==
    IF toks = <<>> \/ toks[1].ner = OTag THEN <<>>
    ELSE <<(<<toks[1].start_char, toks[Len(toks)].end_char, TypeOf(toks[1].ner)>>)>>

\* C3: the token-tag fallback is used if and only if the primary path
\* yields no span.  When an entity record converts to a span with
\* start < end, the token loop never runs, the span list holds spans of
\* entity records only, and so the output does not depend on the tags;
\* otherwise the span list is the one the token loop built from the tags.
C3_FallbackIffPrimaryEmpty ==
    Extracted =>
        IF PrimaryYields
        THEN /\ si = 1 /\ ti = 1 /\ spans_local = <<>>
             /\ \A n \in 1..Len(spans) :
                    \E e \in 1..Len(doc.ents) :
                        /\ GoodEnt(doc.ents[e])
                        /\ spans[n][1] = doc.ents[e].start_char.v
                        /\ spans[n][2] = doc.ents[e].end_char.v
             /\ Len(spans) = Cardinality({e \in 1..Len(doc.ents) : GoodEnt(doc.ents[e])})
        ELSE /\ si > Len(doc.sentences)
             /\ spans = spans_local
             /\ spans = TokenSpans(doc.sentences[1])

\* an entity was redacted although the only token is tagged as an entity
\* elsewhere: the tag did not reach the output
C3_Witness ==
    /\ Done
    /\ PrimaryYields
    /\ doc.sentences = <<(<<Tok(0, 1, Tag("S", GPE))>>)>>
    /\ accepted = <<(<<1, 2, PERSON>>)>>

\* C7 as stated: every span either path emits has start < end, also for
\* tokens with degenerate or out-of-order offsets.
C7_AsStated ==
    /\ \A n \in 1..Len(spans) : spans[n][1] < spans[n][2]
    /\ \A n \in 1..Len(spans_local) : spans_local[n][1] < spans_local[n][2]

\* every token has start < end and the tokens are in ascending order
TokensInOrder(toks) ==
    /\ \A n \in 1..Len(toks) : toks[n].start_char < toks[n].end_char
    /\ \A n \in 1..(Len(toks) - 1) : toks[n].end_char <= toks[n + 1].start_char

\* C7 amended: every span of the primary path has start < end; a span of the
\* fallback path has start < end when the tokens of its sentence each have
\* start < end and are in ascending order.  (A fallback span of a
\* degenerate token, or of tokens out of order, has start >= end and is
\* only skipped later, by the sweep.)
C7_SpansNonDegenerate ==
    /\ (Extracted /\ PrimaryYields) =>
           \A n \in 1..Len(spans) : spans[n][1] < spans[n][2]
    /\ (\A s \in 1..Len(doc.sentences) : TokensInOrder(doc.sentences[s])) =>
           \A n \in 1..Len(spans_local) : spans_local[n][1] < spans_local[n][2]

\* the primary path dropped a record with start >= end and kept another
C7_Witness ==
    /\ Extracted
    /\ Len(doc.ents) = 2
    /\ Converts(doc.ents[1])
    /\ doc.ents[1].start_char.v >= doc.ents[1].end_char.v
    /\ Len(spans) = 1

(***************************************************************************)
(* Properties of _ensure_pipeline, checked under SpecPipeline.             *)
(***************************************************************************)
InSection(c) == tpc[c] \in {"check", "construct"}

\* the instances the calls finished so far have returned
ReturnedBy(c) == {ret[c][n].inst : n \in {m \in 1..Len(ret[c]) : ret[c][m].ok}}
ReturnedInstances == UNION {ReturnedBy(c) : c \in Callers}

\* C8: under any interleaving of the callers, at most one caller is in the
\* check-and-construct section and it holds the lock; at most one pipeline
\* is ever constructed; every call that returns gives the one cached
\* instance; and the cache, once set, is never replaced or reset.
C8_InitializedOnce ==
    /\ [](/\ \A c \in Callers : InSection(c) => lock = Some(c)
          /\ Cardinality({c \in Callers : InSection(c)}) <= 1
          /\ built <= 1
          /\ Cardinality(ReturnedInstances) <= 1
          /\ \A i \in ReturnedInstances : stanza_pipeline = Some(i))
    /\ [][~IsNone(stanza_pipeline) => stanza_pipeline' = stanza_pipeline]_vars

\* two callers have each got the instance, while a third waits for the lock
\* that another call holds
C8_Witness ==
    /\ Cardinality({c \in Callers : Len(ret[c]) > 0 /\ ret[c][1].ok}) >= 2
    /\ \E c \in Callers : tpc[c] = "acquire"
    /\ ~IsNone(lock)

\* C9: when stanza.Pipeline raises, the call ends with the exception (its
\* outcome is the failure, not an instance), the lock is free and the cache
\* is still unset; and a call that finds the cache unset after a failure
\* goes on to construct the pipeline again: it never returns at the check.
C9_FailureNotCached ==
    [][\A c \in Callers :
         /\ (tpc[c] = "construct" /\ failed' = failed + 1 /\ tpc'[c] = "idle") =>
                /\ ret'[c] = Append(ret[c], Raised)
                /\ lock' = None
                /\ stanza_pipeline' = None
         /\ (tpc[c] = "check" /\ failed > 0 /\ built = 0 /\ tpc'[c] # tpc[c]) =>
                /\ tpc'[c] = "construct"
                /\ ret'[c] = ret[c]]_vars

\* a caller whose first call raised and whose next call built the pipeline
C9_Witness == \E c \in Callers : ret[c] = <<Raised, Returned(1)>>

(***************************************************************************)
(* Further properties of the sort and the sweep, checked under SpecSweep.  *)
(***************************************************************************)
NonDegenerate(span) == span[1] < span[2]

\* span i of sp comes before span j in a stable order by start
Before(sp, i, j) == sp[i][1] < sp[j][1] \/ (sp[i][1] = sp[j][1] /\ i < j)

\* the index in sp of the span that a stable sort by start puts at place p
IndexAt(sp, p) ==
    CHOOSE i \in 1..Len(sp) :
        Cardinality({j \in 1..Len(sp) : Before(sp, j, i)}) = p - 1

\* sp in ascending order of start, spans of equal start in their order in sp
StableByStart(sp) == [p \in 1..Len(sp) |-> sp[IndexAt(sp, p)]]

\* the spans of the ordered list sp kept by "first kept wins": a span is
\* kept when it does not start before the end of the span kept last
RECURSIVE Greedy(_, _)
Greedy(sp, last) ==
    IF sp = <<>> THEN <<>>
    ELSE IF Head(sp)[1] < last THEN Greedy(Tail(sp), last)
    ELSE <<Head(sp)>> \o Greedy(Tail(sp), Head(sp)[2])

\* C11: a span with start >= end is never reflected in the output: the
\* output for the span list is the output for the list without its spans
\* that have start >= end (sorted by start, kept greedily, spliced).
C11_DegenerateIgnored ==
    Done =>
        Val(output) =
            Spliced(text, Greedy(StableByStart(SelectSeq(spans, NonDegenerate)), 0), 0)

\* a span list with a span of start >= end listed before a span that is kept
C11_Witness ==
    /\ Done
    /\ Len(spans) = 2
    /\ spans[1][1] >= spans[1][2]
    /\ accepted = <<spans[2]>>
    /\ spans[1][1] <= spans[2][1]

(***************************************************************************)
(* Further property of the primary path, checked under SpecEnts.           *)
(***************************************************************************)
\* the span of an entity record whose attributes convert
SpanOfEnt(ent) ==
    <<ent.start_char.v, ent.end_char.v,
      IF ent.type.k = "none" THEN <<"N", "o", "n", "e">> ELSE ent.type.v>>

GoodEnts == SelectSeq(doc.ents, GoodEnt)

\* C12: on the primary path an entity record whose start, end or type does
\* not convert is skipped alone: the span list is, in entity order, the spans
\* of exactly the records that convert and have start < end, and the token
\* loop is entered only when there is no such record.
C12_BadRecordSkippedAlone ==
    /\ (Extracted /\ PrimaryYields) =>
           spans = [n \in 1..Len(GoodEnts) |-> SpanOfEnt(GoodEnts[n])]
    /\ pc = "tokens" => GoodEnts = <<>>

\* a record whose start is None, listed before a record that converts
C12_Witness ==
    /\ Done
    /\ Len(doc.ents) = 2
    /\ doc.ents[1].start_char.k = "none"
    /\ doc.ents[1].type.k = "str"
    /\ GoodEnt(doc.ents[2])
    /\ spans = <<SpanOfEnt(doc.ents[2])>>
    /\ accepted = spans

(***************************************************************************)
(* Further properties of the token loop, checked under Spec.               *)
(***************************************************************************)
\* TokenStep is about to read token ti of sentence si
AtToken == InTokenLoop /\ ti <= Len(doc.sentences[si])

TokenSpan(token) == <<token.start_char, token.end_char, TypeOf(token.ner)>>

\* the span list with the span that is open, if one is
WithOpenSpan ==
    IF cur_start # None /\ cur_end # None /\ cur_type # None
    THEN Append(spans_local, <<cur_start[1], cur_end[1], cur_type[1]>>)
    ELSE spans_local

NothingOpen == cur_start = None /\ cur_end = None /\ cur_type = None

\* TokenStep is about to read a token tagged S-T or U-T
AtSingle ==
    /\ AtToken
    /\ doc.sentences[si][ti].ner # OTag
    /\ PrefixOf(doc.sentences[si][ti].ner) \in {"S", "U"}

\* TokenStep is about to read a token I-T, E-T or L-T that directly follows
\* a token S-T or U-T of the same type in its sentence
AtContinuationOfSingle ==
    /\ AtToken
    /\ ti >= 2
    /\ doc.sentences[si][ti].ner # OTag
    /\ doc.sentences[si][ti - 1].ner # OTag
    /\ PrefixOf(doc.sentences[si][ti].ner) \in {"I", "E", "L"}
    /\ PrefixOf(doc.sentences[si][ti - 1].ner) \in {"S", "U"}
    /\ TypeOf(doc.sentences[si][ti].ner) = TypeOf(doc.sentences[si][ti - 1].ner)

\* C13: the step that reads a token S-T or U-T appends the one-token span
\* (token.start, token.end, T) at once, after the span that was open if one
\* was, and leaves no span open; a token I-T, E-T or L-T of the same type
\* right after it does not extend that span but yields its own one-token
\* span.  "Paris is nice." with "Paris" at (0, 5) tagged S-GPE or U-GPE gives
\* the span (0, 5, GPE) and the output "[GPE] is nice.".
C13_SingleTokenSpan ==
    /\ [][AtSingle =>
            /\ spans_local' = Append(WithOpenSpan, TokenSpan(doc.sentences[si][ti]))
            /\ NothingOpen']_vars
    /\ [][AtContinuationOfSingle =>
            /\ spans_local' = Append(spans_local, TokenSpan(doc.sentences[si][ti]))
            /\ spans_local[Len(spans_local)] = TokenSpan(doc.sentences[si][ti - 1])
            /\ NothingOpen']_vars
    /\ []((Extracted /\ doc \in ParisDocs) => spans = <<(<<0, 5, GPE>>)>>)
    /\ []((Done /\ doc \in ParisDocs) =>
            Val(output) = <<"[", "G", "P", "E", "]", " ", "i", "s", " ",
                            "n", "i", "c", "e", ".">>)

\* the tags B-PERSON, S-GPE, I-GPE in one sentence: the S token closed the
\* open span and gave its own, and the I token after it gave a third span
C13_Witness ==
    /\ Extracted
    /\ Len(doc.sentences) = 1
    /\ Len(doc.sentences[1]) = 3
    /\ doc.sentences[1][1].ner = Tag("B", PERSON)
    /\ doc.sentences[1][2].ner = Tag("S", GPE)
    /\ doc.sentences[1][3].ner = Tag("I", GPE)
    /\ spans = <<(<<0, 1, PERSON>>), (<<2, 3, GPE>>), (<<4, 5, GPE>>)>>

\* the span lies between the first and the last token of sentence s
InSentence(span, s) ==
    /\ doc.sentences[s] # <<>>
    /\ span[1] >= doc.sentences[s][1].start_char
    /\ span[2] <= doc.sentences[s][Len(doc.sentences[s])].end_char

\* sentence s starts with a token tagged I-T, E-T or L-T
StartsWithContinuation(s) ==
    /\ doc.sentences[s] # <<>>
    /\ doc.sentences[s][1].ner # OTag
    /\ PrefixOf(doc.sentences[s][1].ner) \in {"I", "E", "L"}

\* C14: no span is open at the start of any sentence: the step at the end of
\* a sentence emits the span still open after its last token and clears the
\* open-span state, so no emitted span is built from tokens of two sentences,
\* and a token I-T, E-T or L-T that opens a sentence yields its own one-token
\* span instead of extending a span of the sentence before.
C14_SentenceBoundary ==
    /\ []((pc = "tokens" /\ ti = 1) => NothingOpen)
    /\ [][(InTokenLoop /\ ti > Len(doc.sentences[si])) =>
            (spans_local' = WithOpenSpan /\ NothingOpen')]_vars
    /\ [](Extracted =>
            \A n \in 1..Len(spans) : \E s \in 1..Len(doc.sentences) :
                InSentence(spans[n], s))
    /\ [](Extracted =>
            \A s \in 1..Len(doc.sentences) :
                StartsWithContinuation(s) =>
                    \E n \in 1..Len(spans) : spans[n] = TokenSpan(doc.sentences[s][1]))

\* B-PERSON ends the first sentence and I-PERSON opens the second: two spans
C14_Witness ==
    /\ Extracted
    /\ Len(doc.sentences) = 2
    /\ Len(doc.sentences[1]) = 1
    /\ Len(doc.sentences[2]) = 1
    /\ doc.sentences[1][1].ner = Tag("B", PERSON)
    /\ doc.sentences[2][1].ner = Tag("I", PERSON)
    /\ spans = <<(<<0, 1, PERSON>>), (<<2, 3, PERSON>>)>>

\* the end of the span accepted last, 0 when none was accepted yet
LastAcceptedEnd == IF accepted = <<>> THEN 0 ELSE accepted[Len(accepted)][2]

\* SweepStep is about to consider span k of the sorted list
AtSpan == pc = "sweep" /\ k <= Len(spans_sorted)

\* C15: whether the sweep accepts a span depends only on the spans accepted
\* before it: a span is accepted, unchanged, exactly when it has start < end
\* and does not start before the end of the span accepted last; a discarded
\* span adds nothing to the output parts, is not truncated or merged into
\* another span, and leaves last_idx unchanged.  With A = (0, 5), B = (3, 8)
\* and C = (6, 12) on "Alice Bobson here", C is accepted although it overlaps
\* the discarded B.
C15_DiscardLeavesNoTrace ==
    /\ [][AtSpan =>
            IF /\ spans_sorted[k][1] < spans_sorted[k][2]
               /\ spans_sorted[k][1] >= LastAcceptedEnd
            THEN /\ accepted' = Append(accepted, spans_sorted[k])
                 /\ last_idx' = spans_sorted[k][2]
            ELSE /\ accepted' = accepted
                 /\ result_parts' = result_parts
                 /\ last_idx' = last_idx]_vars
    /\ [](\A n \in 1..Len(accepted) : \E m \in 1..Len(spans) : accepted[n] = spans[m])
    /\ []((Done /\ doc = AliceThreeDoc) =>
            /\ accepted = <<SpanA, SpanC>>
            /\ Val(output) = <<"[", "P", "E", "R", "S", "O", "N", "]", " ",
                               "[", "P", "E", "R", "S", "O", "N", "]", " ",
                               "h", "e", "r", "e">>)

\* the sweep has discarded B between the accepted A and C
C15_Witness ==
    /\ Done
    /\ spans = <<SpanA, SpanB, SpanC>>
    /\ accepted = <<SpanA, SpanC>>

\* the places in the span list of the spans with start < end that start at s
StartingAt(s) == {n \in 1..Len(spans) : NonDegenerate(spans[n]) /\ spans[n][1] = s}

FirstStartingAt(s) == CHOOSE n \in StartingAt(s) : \A m \in StartingAt(s) : n <= m

\* the largest end among the accepted spans that start before s, 0 if none
EndBefore(s) ==
    LET ends == {accepted[n][2] : n \in {m \in 1..Len(accepted) : accepted[m][1] < s}}
    IN  IF ends = {} THEN 0 ELSE CHOOSE e \in ends : \A f \in ends : f <= e

\* C16: the sort by start is stable, so spans of equal start are considered
\* in the order they were emitted: among the spans with start < end that share
\* a start, only the one emitted first can be accepted, and it is accepted
\* whenever that start is not below the end of the spans accepted before it;
\* the others with that start are discarded.
C16_StableSortTies ==
    /\ pc \in {"sweep", "done"} => spans_sorted = StableByStart(spans)
    /\ Done =>
         \A s \in {spans[n][1] : n \in 1..Len(spans)} :
           StartingAt(s) # {} =>
             /\ \A n \in 1..Len(accepted) :
                    accepted[n][1] = s => accepted[n] = spans[FirstStartingAt(s)]
             /\ Cardinality({n \in 1..Len(accepted) : accepted[n][1] = s}) <= 1
             /\ s >= EndBefore(s) =>
                    \E n \in 1..Len(accepted) : accepted[n] = spans[FirstStartingAt(s)]

\* two spans that start at 0: the one emitted first, although the longer and
\* of another type, is the one accepted
C16_Witness ==
    /\ Done
    /\ spans = <<(<<0, 2, ORG>>), (<<0, 1, PERSON>>)>>
    /\ accepted = <<(<<0, 2, ORG>>)>>

\* the token lies inside one of the emitted spans
Covered(token) ==
    \E n \in 1..Len(spans) :
        spans[n][1] <= token.start_char /\ token.end_char <= spans[n][2]

\* C17: once the token loop has returned, every token whose tag is not O
\* lies inside some emitted span; in particular a span opened by a B token
\* is emitted and never discarded.
C17_AsStated ==
    Extracted =>
        \A s \in 1..Len(doc.sentences) : \A i \in 1..Len(doc.sentences[s]) :
            doc.sentences[s][i].ner # OTag => Covered(doc.sentences[s][i])

\* B-GPE then I-PERSON: the span opened by the B token is in no emitted span
C17_OpenSpanLost ==
    /\ Extracted
    /\ doc.sentences = <<WordToks(<<Tag("B", GPE), Tag("I", PERSON)>>)>>
    /\ spans = <<(<<2, 3, PERSON>>)>>

\* the tokens of all sentences from sentence s on, in document order
RECURSIVE TokensFrom(_)
TokensFrom(s) ==
    IF s > Len(doc.sentences) THEN <<>> ELSE doc.sentences[s] \o TokensFrom(s + 1)

\* C20: when the fallback path is used and the tokens of the document each
\* have start < end and appear in ascending, non-overlapping order across
\* all sentences, the emitted span list is strictly ordered by start and
\* pairwise non-overlapping, and the sweep accepts every span of it.
C20_OrderedTokensAllAccepted ==
    (Done /\ ~PrimaryYields /\ TokensInOrder(TokensFrom(1))) =>
        /\ \A n \in 1..Len(spans) : spans[n][1] < spans[n][2]
        /\ \A n \in 1..(Len(spans) - 1) : spans[n][2] <= spans[n + 1][1]
        /\ spans_sorted = spans
        /\ accepted = spans

\* "abcd": B-PERSON, I-PERSON end the first sentence, S-ORG starts the second
\* where the first span ends; both spans are accepted
C20_Witness ==
    /\ Done
    /\ doc = Doc(<<>>, <<AbcdFirst, AbcdSecond>>)
    /\ TokensInOrder(TokensFrom(1))
    /\ spans = <<(<<0, 2, PERSON>>), (<<2, 3, ORG>>)>>
    /\ accepted = spans

(***************************************************************************)
(* Properties of the front-end, checked under SpecGui.                     *)
(***************************************************************************)
\* a _load_pipeline_background thread has not finished
LoadRunning == \E l \in 1..Len(loaders) : loaders[l] \in {"start", "call"}

\* a _worker thread has not finished
WorkerRunning == \E w \in 1..Len(workers) : workers[w].wpc \in {"start", "run"}

\* C18: ensure_pipeline starts a background load whenever the pipeline is
\* not loaded and no load is running: in every such state, also after a
\* load has failed, the test of ensure_pipeline passes, so that the next
\* call starts a new load.
C18_AsStated ==
    (~pipeline_loaded /\ ~LoadRunning) => ~pipeline_loading

\* the only load has failed and ensure_pipeline can start no other
C18_StuckAfterFailure ==
    /\ loaders = <<"failed">>
    /\ ~pipeline_loaded
    /\ pipeline_loading

\* C19: once every worker has finished and every scheduled callback has
\* run, output_text is the result of the request started last (all requests
\* having succeeded); and status_text is "Anonymization complete." only
\* while no worker is running.
C19_AsStated ==
    /\ (/\ workers # <<>>
        /\ \A w \in 1..Len(workers) : workers[w].wpc = "ok"
        /\ clock = <<>>) => output_text = workers[Len(workers)].result
    /\ status_text = "Anonymization complete." => ~WorkerRunning

\* the request started first finished last: its result is what is shown
C19_StaleOutput ==
    /\ Len(workers) = 2
    /\ workers[1].wpc = "ok"
    /\ workers[2].wpc = "ok"
    /\ clock = <<>>
    /\ workers[1].result # workers[2].result
    /\ output_text = workers[1].result

====
